---- MODULE Spec2Model ----
(***************************************************************************)
(* The routing shell of frontend/src/components/HomePage.js.               *)
(*                                                                         *)
(* HomePage.render() mounts a <Router> with one <Switch> over five <Route> *)
(* children.  The state of the shell is the router's current               *)
(* location.pathname, the list of Route children handed to the Switch and  *)
(* what the Switch rendered for that pathname.  The only event is a        *)
(* location change, on which the Switch re-renders synchronously; action   *)
(* is the kind of the last one ("POP" at mount and on back or forward,     *)
(* "PUSH" on a link or a programmatic navigation).                         *)
(*                                                                         *)
(* Strings are sequences of one-character strings, so that matching a      *)
(* pathname against a route path is computed character by character, the   *)
(* way the compiled route regular expression does it.  A match result is   *)
(* an option: <<>> is JavaScript's null, <<m>> is the match object m.      *)
(***************************************************************************)
EXTENDS Naturals, Sequences, FiniteSets

VARIABLES pathname, action, routes, rendered

vars == <<pathname, action, routes, rendered>>

----------------------------------------------------------------------------
(* String literals of the source, and of the URLs the model navigates to.  *)

sRoot    == <<"/">>
sHome    == <<"/", "h", "o", "m", "e">>
sMake    == <<"/", "m", "a", "k", "e">>
sBook    == <<"/", "b", "o", "o", "k">>
sOrder   == <<"/", "o", "r", "d", "e", "r">>
sOrderId == <<"o", "r", "d", "e", "r", "I", "d">>
sOrderPattern == sOrder \o <<"/", ":">> \o sOrderId

StartPageText == "You are at the start page"

(* Routes with the exact prop left off the "/" entry.                      *)
RoutesWithoutExact ==
    << [path |-> sRoot,         exact |-> FALSE, component |-> "UserGenPage", children |-> ""],
       [path |-> sHome,         exact |-> FALSE, component |-> "",            children |-> StartPageText],
       [path |-> sMake,         exact |-> FALSE, component |-> "MakerPage",   children |-> ""],
       [path |-> sBook,         exact |-> FALSE, component |-> "BookPage",    children |-> ""],
       [path |-> sOrderPattern, exact |-> FALSE, component |-> "OrderPage",   children |-> ""] >>

(* Routes with the components of "/make" and "/book" exchanged.            *)
RoutesSwapped ==
    << [path |-> sRoot,         exact |-> TRUE,  component |-> "UserGenPage", children |-> ""],
       [path |-> sHome,         exact |-> FALSE, component |-> "",            children |-> StartPageText],
       [path |-> sMake,         exact |-> FALSE, component |-> "BookPage",    children |-> ""],
       [path |-> sBook,         exact |-> FALSE, component |-> "MakerPage",   children |-> ""],
       [path |-> sOrderPattern, exact |-> FALSE, component |-> "OrderPage",   children |-> ""] >>

(* The Route children of the Switch, in source order.  component is the    *)
(* component prop ("" when absent), children the child content ("" when    *)
(* absent).                                                                *)
Routes ==
    << [path |-> sRoot,         exact |-> TRUE,  component |-> "UserGenPage", children |-> ""],
       [path |-> sHome,         exact |-> FALSE, component |-> "",            children |-> StartPageText],
       [path |-> sMake,         exact |-> FALSE, component |-> "MakerPage",   children |-> ""],
       [path |-> sBook,         exact |-> FALSE, component |-> "BookPage",    children |-> ""],
       [path |-> sOrderPattern, exact |-> FALSE, component |-> "OrderPage",   children |-> ""] >>

----------------------------------------------------------------------------
(* Bounds of the model: the URLs a navigation event can carry.             *)

MaxSegs == 2

Segments ==
    { <<>>,
      <<"h", "o", "m", "e">>,
      <<"m", "a", "k", "e">>,
      <<"b", "o", "o", "k">>,
      <<"o", "r", "d", "e", "r">>,
      <<"h", "o", "m", "e", "s">>,
      <<"H", "O", "M", "E">>,
      <<"4", "2">>,
      <<"f", "o", "o">> }

RECURSIVE Join(_)
Join(segs) ==
    IF segs = <<>> THEN <<>> ELSE <<"/">> \o Head(segs) \o Join(Tail(segs))

(* Longer pathnames that continue past a route's last segment.             *)
DeepPaths ==
    { sOrder \o <<"/", "4", "2", "/">>,
      sOrder \o <<"/", "4", "2", "/", "f", "o", "o">>,
      sOrder \o <<"/", "/", "4", "2">>,
      sHome  \o <<"/", "f", "o", "o", "/", "4", "2">>,
      sMake  \o <<"/", "4", "2", "/">>,
      sBook  \o <<"/", "/", "f", "o", "o">> }

(* Every pathname starts with "/"; "/" itself is the one empty segment.    *)
Paths ==
    { Join(segs) : segs \in UNION { [1..n -> Segments] : n \in 1..MaxSegs } }
        \cup DeepPaths

----------------------------------------------------------------------------
(* The route matcher the Switch calls for each Route child: the route path *)
(* is compiled to an anchored, case-insensitive regular expression         *)
(* (options end = exact, strict = false, sensitive = false, the defaults   *)
(* of a Route that sets none of them), which is run on the pathname.       *)

Min(S) == CHOOSE x \in S : \A y \in S : x <= y

(* String.toLowerCase over the model's alphabet (the "i" flag).            *)
Lower(c) ==
    CASE c = "H" -> "h"
      [] c = "O" -> "o"
      [] c = "M" -> "m"
      [] c = "E" -> "e"
      [] OTHER   -> c

(* \w over the model's alphabet: the characters of a parameter name.       *)
IsNameChar(c) == c \notin {"/", ":", "."}

RECURSIVE NameLen(_, _)
NameLen(str, i) ==
    IF i <= Len(str) /\ IsNameChar(str[i]) THEN 1 + NameLen(str, i + 1) ELSE 0

(* Position of the leftmost ":name" of a route path, 0 when there is none. *)
FirstKey(str) ==
    LET I == { i \in 1..Len(str) : str[i] = ":" /\ NameLen(str, i + 1) > 0 }
    IN  IF I = {} THEN 0 ELSE Min(I)

LitToken(text) == [isKey |-> FALSE, text |-> text, name |-> <<>>, prefix |-> <<>>]
KeyToken(name, prefix) == [isKey |-> TRUE, text |-> <<>>, name |-> name, prefix |-> prefix]

(* The tokens of a route path: literal text, and one key per ":name", with *)
(* the "/" or "." just before it as the key's prefix.                      *)
RECURSIVE parse(_)
parse(str) ==
    LET k == FirstKey(str)
    IN  IF k = 0
        THEN IF str = <<>> THEN <<>> ELSE <<LitToken(str)>>
        ELSE LET prefix == IF k > 1 /\ str[k - 1] \in {"/", "."}
                           THEN <<str[k - 1]>> ELSE <<>>
                 text   == SubSeq(str, 1, k - 1 - Len(prefix))
                 n      == NameLen(str, k + 1)
             IN  (IF text = <<>> THEN <<>> ELSE <<LitToken(text)>>)
                 \o <<KeyToken(SubSeq(str, k + 1, k + n), prefix)>>
                 \o parse(SubSeq(str, k + n + 1, Len(str)))

(* The compiled route: in non-strict mode a trailing "/" of the route is   *)
(* dropped (an optional trailing "/" is accepted by MatchTail instead).    *)
tokensToRegExp(tokens, end) ==
    LET n == Len(tokens)
        endsWithDelimiter ==
            /\ n > 0
            /\ ~tokens[n].isKey
            /\ tokens[n].text[Len(tokens[n].text)] = "/"
    IN  [tokens |-> IF endsWithDelimiter
                    THEN [tokens EXCEPT ![n].text = SubSeq(@, 1, Len(@) - 1)]
                    ELSE tokens,
         end    |-> end,
         keys   |-> SelectSeq(tokens, LAMBDA t : t.isKey)]

(* LitAt with the length test off by one: text may not reach the end of s. *)
LitAtStrictBound(text, s, pos) ==
    /\ pos + Len(text) < Len(s)
    /\ \A j \in 1..Len(text) : Lower(s[pos + j]) = Lower(text[j])

(* text occurs in s right after position pos, ignoring case.               *)
LitAt(text, s, pos) ==
    /\ pos + Len(text) <= Len(s)
    /\ \A j \in 1..Len(text) : Lower(s[pos + j]) = Lower(text[j])

(* MatchTail without the optional trailing "/".                            *)
MatchTailNoTrailingSlash(end, s, pos) ==
    IF pos = Len(s) THEN <<pos>>
    ELSE IF ~end /\ s[pos + 1] = "/" THEN <<pos>>
    ELSE <<>>

(* MatchTail with every route anchored at the end of the pathname.         *)
MatchTailAnchored(end, s, pos) ==
    IF pos + 1 = Len(s) /\ s[pos + 1] = "/"
    THEN <<pos + 1>>
    ELSE IF pos = Len(s) THEN <<pos>>
    ELSE <<>>

(* The end of the expression, (?:\/(?=$))? followed by $ when end is set   *)
(* and by (?=\/|$) otherwise: the position where the match ends, as an     *)
(* option.                                                                 *)
MatchTail(end, s, pos) ==
    IF pos + 1 = Len(s) /\ s[pos + 1] = "/"
    THEN <<pos + 1>>
    ELSE IF pos = Len(s) THEN <<pos>>
    ELSE IF ~end /\ s[pos + 1] = "/" THEN <<pos>>
    ELSE <<>>

(* The tokens from position pos on.  A key matches its prefix and then the *)
(* shortest non-empty run of characters other than "/" after which the     *)
(* rest of the expression matches (the lazy group ([^\/]+?)).              *)
RECURSIVE execFrom(_, _, _, _)
execFrom(tokens, end, s, pos) ==
    IF tokens = <<>>
    THEN LET t == MatchTail(end, s, pos)
         IN  IF t = <<>> THEN <<>> ELSE <<[endpos |-> t[1], values |-> <<>>]>>
    ELSE LET tok == Head(tokens)
         IN  IF ~tok.isKey
             THEN IF LitAt(tok.text, s, pos)
                  THEN execFrom(Tail(tokens), end, s, pos + Len(tok.text))
                  ELSE <<>>
             ELSE IF ~LitAt(tok.prefix, s, pos)
                  THEN <<>>
                  ELSE LET start == pos + Len(tok.prefix)
                           ks == { k \in 1..(Len(s) - start) :
                                     /\ \A j \in 1..k : s[start + j] # "/"
                                     /\ execFrom(Tail(tokens), end, s, start + k) # <<>> }
                       IN  IF ks = {}
                           THEN <<>>
                           ELSE LET k == Min(ks)
                                    r == execFrom(Tail(tokens), end, s, start + k)[1]
                                IN  <<[endpos |-> r.endpos,
                                       values |-> <<SubSeq(s, start + 1, start + k)>> \o r.values]>>

(* regexp.exec(pathname): the matched text and the captured groups.        *)
exec(re, s) ==
    LET r == execFrom(re.tokens, re.end, s, 0)
    IN  IF r = <<>>
        THEN <<>>
        ELSE <<[url |-> SubSeq(s, 1, r[1].endpos), values |-> r[1].values]>>

(* Params reading the group after each key's own (nothing, for the last).  *)
ParamsOffByOne(keys, values) ==
    [i \in 1..Len(keys) |->
        [name  |-> keys[i].name,
         value |-> IF i + 1 <= Len(values) THEN values[i + 1] ELSE <<>>]]

(* The params object: each key's name bound to the group it captured.      *)
Params(keys, values) ==
    [i \in 1..Len(keys) |-> [name |-> keys[i].name, value |-> values[i]]]

(* matchPath that never looks at the route's exact prop.                   *)
matchPathIgnoringExact(location, route) ==
    LET re == tokensToRegExp(parse(route.path), FALSE)
        m  == exec(re, location)
    IN  IF m = <<>>
        THEN <<>>
        ELSE LET url     == m[1].url
                 isExact == (location = url)
             IN  <<[path    |-> route.path,
                    url     |-> IF route.path = sRoot /\ url = <<>> THEN sRoot ELSE url,
                    isExact |-> isExact,
                    params  |-> Params(re.keys, m[1].values)]>>

matchPath(location, route) ==
    LET re == tokensToRegExp(parse(route.path), route.exact)
        m  == exec(re, location)
    IN  IF m = <<>>
        THEN <<>>
        ELSE LET url     == m[1].url
                 isExact == (location = url)
             IN  IF route.exact /\ ~isExact
                 THEN <<>>
                 ELSE <<[path    |-> route.path,
                         url     |-> IF route.path = sRoot /\ url = <<>> THEN sRoot ELSE url,
                         isExact |-> isExact,
                         params  |-> Params(re.keys, m[1].values)]>>

----------------------------------------------------------------------------
(* The Switch: the first child whose path matches, and nothing else.       *)

(* SwitchStep without the test that no earlier child has matched.          *)
SwitchStepNoGuard(child, location, acc) ==
    [element |-> <<child>>, match |-> matchPath(location, child)]

(* One iteration of the Switch's loop over its children.                   *)
SwitchStep(child, location, acc) ==
    IF acc.match = <<>>
    THEN [element |-> <<child>>, match |-> matchPath(location, child)]
    ELSE acc

RECURSIVE SwitchLoop(_, _, _, _)
SwitchLoop(children, i, location, acc) ==
    IF i > Len(children)
    THEN acc
    ELSE SwitchLoop(children, i + 1, location, SwitchStep(children[i], location, acc))

(* The match of the enclosing Router, which matches every pathname.        *)
RouterMatch == [path |-> sRoot, url |-> sRoot, isExact |-> FALSE, params |-> <<>>]

(* Switch returning the last child it looked at when none has matched.     *)
SwitchNoNullCheck(children, location) ==
    LET r == SwitchLoop(children, 1, location, [element |-> <<>>, match |-> <<>>])
    IN  IF r.match # <<>>
        THEN <<[route |-> r.element[1], computedMatch |-> r.match[1]]>>
        ELSE IF r.element # <<>>
        THEN <<[route |-> r.element[1], computedMatch |-> RouterMatch]>>
        ELSE <<>>

(* The element the Switch returns: the matched child with its match, or    *)
(* nothing.                                                                *)
Switch(children, location) ==
    LET r == SwitchLoop(children, 1, location, [element |-> <<>>, match |-> <<>>])
    IN  IF r.match # <<>>
        THEN <<[route |-> r.element[1], computedMatch |-> r.match[1]]>>
        ELSE <<>>

(* What a matched Route renders: its children when it has any, else its    *)
(* component, which receives the match as a prop.                          *)
RouteRender(element) ==
    IF element.route.children # ""
    THEN [view |-> element.route.children, props |-> <<>>]
    ELSE [view |-> element.route.component, props |-> <<element.computedMatch>>]

(* HomePage.render(): what the page shows for a pathname.                  *)
render(children, location) ==
    LET out == Switch(children, location)
    IN  [i \in 1..Len(out) |-> RouteRender(out[i])]

----------------------------------------------------------------------------
(* The shell is mounted at the browser's current URL, and re-renders on    *)
(* every location change.                                                  *)

Init ==
    /\ pathname \in Paths
    /\ action = "POP"
    /\ routes = Routes
    /\ rendered = render(Routes, pathname)

(* Navigate keeping the previous output when the new pathname matches      *)
(* nothing.                                                                *)
NavigateStale(p) ==
    /\ pathname' = p
    /\ routes' = routes
    /\ rendered' = IF render(routes, p) = <<>> THEN rendered ELSE render(routes, p)
    /\ action' \in {"PUSH", "POP"}

Navigate(p) ==
    /\ pathname' = p
    /\ routes' = routes
    /\ rendered' = render(routes, p)
    /\ action' \in {"PUSH", "POP"}

Next == \E p \in Paths : Navigate(p)

Spec == Init /\ [][Next]_vars

----------------------------------------------------------------------------
(* Vocabulary of the properties.                                           *)

(* The views on the page, in order.                                        *)
Views == [i \in 1..Len(rendered) |-> rendered[i].view]

(* pre is a prefix of the string s, character for character.               *)
HasPrefix(s, pre) == Len(s) >= Len(pre) /\ SubSeq(s, 1, Len(pre)) = pre

(* The path segment of s that starts at position start: up to the next "/" *)
(* or the end of s.                                                        *)
RECURSIVE SegmentAt(_, _)
SegmentAt(s, start) ==
    IF start > Len(s) \/ s[start] = "/"
    THEN <<>>
    ELSE <<s[start]>> \o SegmentAt(s, start + 1)

(* The Route entries whose path matches the current pathname, each taken   *)
(* on its own.                                                             *)
Matching == { i \in 1..Len(routes) : matchPath(pathname, routes[i]) # <<>> }

(* What entry i renders for the current pathname.                          *)
EntryOutput(i) ==
    RouteRender([route |-> routes[i], computedMatch |-> matchPath(pathname, routes[i])[1]])

sFoo      == <<"/", "f", "o", "o">>
sHomes    == sHome \o <<"s">>
sOrder42  == sOrder \o <<"/", "4", "2">>

Permutations(n) ==
    { f \in [1..n -> 1..n] : \A i, j \in 1..n : f[i] = f[j] => i = j }

----------------------------------------------------------------------------
(* C1: whenever the pathname is exactly "/", the page shows the            *)
(* UserGenPage component and nothing else.                                 *)
C1_RootRendersUserGen ==
    pathname = sRoot => Views = <<"UserGenPage">>

C1_Witness == pathname = sRoot /\ action = "PUSH" /\ Len(rendered) = 1 /\ rendered[1].view = "UserGenPage"

(* C2: whenever the pathname is "/order/" followed by a non-empty segment  *)
(* X, the page shows the OrderPage component alone, and the match it       *)
(* receives binds orderId to exactly X.                                    *)
OrderShape ==
    /\ HasPrefix(pathname, sOrder \o <<"/">>)
    /\ SegmentAt(pathname, Len(sOrder) + 2) # <<>>

C2_OrderRendersOrderPageWithId ==
    OrderShape =>
        /\ Views = <<"OrderPage">>
        /\ rendered[1].props # <<>>
        /\ rendered[1].props[1].params =
               <<[name |-> sOrderId, value |-> SegmentAt(pathname, Len(sOrder) + 2)]>>

C2_Witness ==
    /\ pathname = sOrder42 \o <<"/", "f", "o", "o">>
    /\ action = "PUSH"
    /\ Views = <<"OrderPage">>
    /\ rendered[1].props[1].params = <<[name |-> sOrderId, value |-> <<"4", "2">>]>>

(* C3 as stated: whenever "/home" is a prefix of the pathname, the page    *)
(* shows the start-page text and no component.                             *)
C3_Original_EveryHomePrefixRendersText ==
    HasPrefix(pathname, sHome) => rendered = <<[view |-> StartPageText, props |-> <<>>]>>

(* C3 as amended: whenever the pathname is "/home" or starts with          *)
(* "/home/", the page shows the start-page text and no component.          *)
C3_HomeSegmentRendersText ==
    (pathname = sHome \/ HasPrefix(pathname, sHome \o <<"/">>))
        => rendered = <<[view |-> StartPageText, props |-> <<>>]>>

C3_Witness ==
    /\ pathname = sHome \o sFoo
    /\ action = "PUSH"
    /\ rendered = <<[view |-> StartPageText, props |-> <<>>]>>

(* C4: at most one Route entry is rendered, it is the earliest entry of    *)
(* the list whose path matches the pathname, and nothing is rendered when  *)
(* no entry matches.                                                       *)
C4_FirstMatchWins ==
    /\ Len(rendered) <= 1
    /\ Matching = {} => rendered = <<>>
    /\ Matching # {} => rendered = <<EntryOutput(Min(Matching))>>

C4_Witness ==
    /\ pathname = sHome \o sOrder
    /\ action = "PUSH"
    /\ Matching # {}
    /\ rendered = <<EntryOutput(Min(Matching))>>

(* C5: whenever the pathname is anything other than exactly "/", the       *)
(* UserGenPage component is not on the page.                               *)
C5_RootIsExact ==
    pathname # sRoot => \A i \in 1..Len(rendered) : rendered[i].view # "UserGenPage"

C5_Witness == pathname = <<"/", "/">> /\ action = "PUSH" /\ rendered = <<>>

(* C6: whenever the pathname is "/make", the page shows the MakerPage      *)
(* component and nothing else.                                             *)
C6_MakeRendersMaker ==
    pathname = sMake => Views = <<"MakerPage">>

C6_Witness == pathname = sMake /\ action = "PUSH" /\ Len(rendered) = 1 /\ rendered[1].view = "MakerPage"

(* C7: whenever the pathname is "/book", the page shows the BookPage       *)
(* component and nothing else.                                             *)
C7_BookRendersBook ==
    pathname = sBook => Views = <<"BookPage">>

C7_Witness == pathname = sBook /\ action = "PUSH" /\ Len(rendered) = 1 /\ rendered[1].view = "BookPage"

(* C8: whenever no Route entry matches the pathname, as for "/foo",        *)
(* "/order" and "/order/", the page is empty; and a navigation event that  *)
(* arrives while the page is empty renders the new pathname as a freshly   *)
(* mounted shell would.                                                    *)
Unmatched == Matching = {}

C8_UnmatchedRendersNothing ==
    /\ [](pathname \in {sFoo, sOrder, sOrder \o <<"/">>} => Unmatched)
    /\ [](Unmatched => rendered = <<>>)
    /\ [][Unmatched => rendered' = render(Routes, pathname')]_vars

C8_Witness ==
    /\ pathname = sOrder \o <<"/">>
    /\ action = "PUSH"
    /\ Unmatched
    /\ rendered = <<>>

C10_RoutesDoNotOverlap ==
    /\ Cardinality(Matching) <= 1
    /\ \A f \in Permutations(Len(routes)) :
           render([i \in 1..Len(routes) |-> routes[f[i]]], pathname) = rendered

C10_Witness ==
    /\ pathname = sOrder \o sHome
    /\ action = "PUSH"
    /\ Cardinality(Matching) = 1
    /\ Views = <<"OrderPage">>

====
